---- MODULE Spec2Model ----
(***************************************************************************)
(* State-machine model of EngineService (engine.service.ts) and of the two *)
(* components that drive it (car.component.ts, cube.component.ts).         *)
(*                                                                         *)
(* The browser is single threaded: every handler (ngOnInit, a frame        *)
(* callback, the load callback, a DOM event listener) runs to completion,  *)
(* so each handler is one action.                                          *)
(*                                                                         *)
(* Units: the clock `now` is performance.now() in milliseconds; a rotation *)
(* is an integer number of (pi / 1000) radians, so that                    *)
(* (-now / 1000) * pi is the integer -now; gridZ is in millimetres.        *)
(* A colour is the triple of its 8-bit channels, as THREE.Color stores it. *)
(***************************************************************************)
EXTENDS Integers, Sequences, FiniteSets, TLC

\* ---------------------------------------------------------------- bounds
MaxScenes == 2      \* createScene calls (component initialisations)
MaxFrameId == 3     \* requestAnimationFrame handles handed out
MaxTicks == 1       \* clock advances

\* ------------------------------------------------------------- constants
GridPeriod == 5000                \* "% 5" of render(), in millimetres
TimeStep == GridPeriod \div 2     \* milliseconds per clock advance
BodyDefault == 16711680           \* 0xff0000
DetailsDefault == 16777215        \* 0xffffff
GlassDefault == 16777215          \* 0xffffff

Components == {"car", "cube"}
Materials == {"body", "details", "glass"}
RimNames == {"rim_fl", "rim_fr", "rim_rl", "rim_rr"}
WheelNames == <<"wheel_fl", "wheel_fr", "wheel_rl", "wheel_rr">>
WheelNameSet == {WheelNames[i] : i \in 1..Len(WheelNames)}
MeshNames == {"body", "glass"} \cup RimNames \cup WheelNameSet

\* values a colour picker can deliver: 0x0000ff, 0x00ff00
PickableColors == {255, 65280}
\* window.innerWidth / window.innerHeight pairs the window can take
InitialViewport == <<800, 600>>
Viewports == {<<800, 600>>, <<600, 800>>}

NoFrame == 0        \* frameId = null
NoGrid == 0         \* this.grid undefined
NoCamera == <<0, 0>>

VARIABLES
  mounted,         \* the components whose view exists (ngOnInit ran, not torn down)
  readyState,      \* document.readyState: "loading" | "interactive"
  dclFired,        \* DOMContentLoaded has been dispatched
  dclListeners,    \* number of DOMContentLoaded listeners added by animate()
  resizeListeners, \* number of window 'resize' listeners added by animate()
  viewport,        \* <<window.innerWidth, window.innerHeight>>
  resizePending,   \* the window changed size and 'resize' is not yet dispatched
  inputValue,      \* value of the three colour <input> elements (hex)
  mat,             \* per createScene call: material -> colour (channel triple)
  loads,           \* per createScene call: "pending" | "done" | "failed"
  carMaterial,     \* per createScene call: mesh name -> material of that call, or "default"
  scenes,          \* per createScene call: children of the THREE.Scene it made
  grid,            \* this.grid: index of the scene whose grid it is, or NoGrid
  gridZ,           \* this.grid.position.z
  aspect,          \* this.camera.aspect as a reduced fraction <<num, den>>
  size,            \* renderer output size <<w, h>>
  wheels,          \* this.wheels: sequence of [car, name, rot]
  pending,         \* requestAnimationFrame handles not yet run or cancelled
  frameId,         \* this.frameId
  nextId,          \* next handle requestAnimationFrame returns
  draws,           \* number of renderer.render calls so far
  lastDraw,        \* what the last renderer.render call saw
  threw,           \* a handler ended with an uncaught exception
  now,             \* performance.now(), ms
  destroyed,       \* EngineService.ngOnDestroy has run
  cancelCalls      \* number of cancelAnimationFrame calls

vars == <<mounted, readyState, dclFired, dclListeners, resizeListeners, viewport,
          resizePending, inputValue, mat, loads, carMaterial, scenes, grid,
          gridZ, aspect, size, wheels, pending, frameId, nextId, draws,
          lastDraw, threw, now, destroyed, cancelCalls>>

nScenes == Len(mat)

\* ------------------------------------------------------------ pure parts

\* THREE.Color.set(hex) / set('#rrggbb'): split into channels
ColorSet(v) == [r |-> v \div 65536, g |-> (v \div 256) % 256, b |-> v % 256]

\* THREE.Color.getHex()
GetHex(c) == c.r * 65536 + c.g * 256 + c.b

RECURSIVE Gcd(_, _)
Gcd(a, b) == IF b = 0 THEN a ELSE Gcd(b, a % b)

\* width / height as a reduced fraction
Divide(w, h) == <<w \div Gcd(w, h), h \div Gcd(w, h)>>

\* the three materials createScene constructs
NewMaterials ==
  [m \in Materials |->
     ColorSet(CASE m = "body" -> BodyDefault
                [] m = "details" -> DetailsDefault
                [] m = "glass" -> GlassDefault)]

GridObj(k) == [kind |-> "grid", id |-> k]
CarObj(k) == [kind |-> "car", id |-> k]

NoMaterials == [n \in MeshNames |-> "default"]

NoDraw == [scheduled |-> FALSE, size |-> NoCamera]

\* ------------------------------------------------------- EngineService

\* a listener bound to the neighbouring material, as a copy-paste slip gives
colorListenerWrongMaterial(mats, m, v) ==
  [mats EXCEPT ![IF m = "glass" THEN "details" ELSE m] = ColorSet(v)]

\* the listener body: <material of m>.color.set(e.target.value)
colorListener(mats, m, v) == [mats EXCEPT ![m] = ColorSet(v)]

\* the listeners of every createScene call so far run on one event
dispatchColor(ms, m, v) == [k \in DOMAIN ms |-> colorListener(ms[k], m, v)]

\* the assignments without the one for 'glass'
assignMaterialsNoGlass(cm) ==
  [n \in MeshNames |->
     CASE n = "body" -> "body"
       [] n \in RimNames -> "details"
       [] OTHER -> cm[n]]

\* loader.load callback, lines 119-128: the six material assignments
assignMaterials(cm) ==
  [n \in MeshNames |->
     CASE n = "body" -> "body"
       [] n \in RimNames -> "details"
       [] n = "glass" -> "glass"
       [] OTHER -> cm[n]]

\* loader.load callback, lines 130-135: this.wheels.push(four wheel objects)
pushWheels(ws, k) ==
  ws \o [i \in 1..Len(WheelNames) |-> [car |-> k, name |-> WheelNames[i], rot |-> 0]]

\* a rotation accumulated from frame to frame
wheelRotationAccumulated(rot, t) == rot - t

\* render, lines 173-175: the value assigned to wheels[i].rotation.x
wheelRotation(rot, t) == 0 - t

\* render, line 177: this.grid.position.z = -time % 5
gridPosition(t) == t % GridPeriod

\* render, lines 179-181: this.frameId = requestAnimationFrame(...)
requestFrame(st) ==
  [st EXCEPT !.pending = st.pending \cup {st.nextId},
             !.frameId = st.nextId,
             !.nextId = st.nextId + 1]

\* render, line 183: this.renderer.render(this.scene, this.camera)
\* (the draw is recorded with whether the next frame was already requested
\* and with the renderer's output size)
drawScene(st, sz) ==
  [st EXCEPT !.draws = st.draws + 1,
             !.lastDraw = [scheduled |-> st.frameId \in st.pending, size |-> sz]]

\* render() with the loop bound "i <= this.wheels.length": reading
\* wheels[length].rotation throws before the next frame is requested
renderOffByOne(st, g, sz, t) ==
  [st EXCEPT !.wheels =
     [i \in DOMAIN st.wheels |->
        [st.wheels[i] EXCEPT !.rot = wheelRotation(st.wheels[i].rot, t)]],
     !.threw = TRUE]

\* render() issuing the draw call before it requests the next frame
renderDrawFirst(st, g, sz, t) ==
  LET rotated == [st EXCEPT !.wheels =
                    [i \in DOMAIN st.wheels |->
                       [st.wheels[i] EXCEPT !.rot = wheelRotation(st.wheels[i].rot, t)]]]
  IN IF g = NoGrid
       THEN [rotated EXCEPT !.threw = TRUE]
       ELSE requestFrame(drawScene([rotated EXCEPT !.gridZ = gridPosition(t)], sz))

\* render(): st is the part of the state the loop touches, g is this.grid,
\* sz the renderer's size, t the clock
render(st, g, sz, t) ==
  LET rotated == [st EXCEPT !.wheels =
                    [i \in DOMAIN st.wheels |->
                       [st.wheels[i] EXCEPT !.rot = wheelRotation(st.wheels[i].rot, t)]]]
  IN IF g = NoGrid
       THEN [rotated EXCEPT !.threw = TRUE]
       ELSE drawScene(requestFrame([rotated EXCEPT !.gridZ = gridPosition(t)]), sz)

\* n listeners of one event each call render()
RECURSIVE renderTimes(_, _, _, _, _)
renderTimes(st, g, sz, t, n) ==
  IF n = 0 THEN st ELSE renderTimes(render(st, g, sz, t), g, sz, t, n - 1)

\* animate() without the readyState test
animateRendersAlways(rs) == TRUE

\* animate, line 158
animateRendersNow(rs) == rs # "loading"

\* createScene, lines 75 and 82-87: renderer.setSize and the new camera's aspect
createCamera(vp) == [aspect |-> Divide(vp[1], vp[2]), size |-> vp]

\* a transposed division, as a slip in resize() would give
resizeTransposed(vp) == [aspect |-> Divide(vp[2], vp[1]), size |-> vp]

\* resize, lines 187-193
resize(vp) == [aspect |-> Divide(vp[1], vp[2]), size |-> vp]

LoopState ==
  [wheels |-> wheels, gridZ |-> gridZ, pending |-> pending, frameId |-> frameId,
   nextId |-> nextId, draws |-> draws, lastDraw |-> lastDraw, threw |-> threw]

SetLoop(st) ==
  /\ wheels' = st.wheels
  /\ gridZ' = st.gridZ
  /\ pending' = st.pending
  /\ frameId' = st.frameId
  /\ nextId' = st.nextId
  /\ draws' = st.draws
  /\ lastDraw' = st.lastDraw
  /\ threw' = st.threw

Init ==
  /\ mounted = {}
  /\ readyState = "loading"
  /\ dclFired = FALSE
  /\ dclListeners = 0
  /\ resizeListeners = 0
  /\ viewport = InitialViewport
  /\ resizePending = FALSE
  /\ inputValue = [m \in Materials |-> GetHex(NewMaterials[m])]
  /\ mat = <<>>
  /\ loads = <<>>
  /\ carMaterial = <<>>
  /\ scenes = <<>>
  /\ grid = NoGrid
  /\ gridZ = 0
  /\ aspect = NoCamera
  /\ size = NoCamera
  /\ wheels = <<>>
  /\ pending = {}
  /\ frameId = NoFrame
  /\ nextId = 1
  /\ draws = 0
  /\ lastDraw = NoDraw
  /\ threw = FALSE
  /\ now = 0
  /\ destroyed = FALSE
  /\ cancelCalls = 0

\* CarComponent.ngOnInit / CubeComponent.ngOnInit: createScene() then animate()
ngOnInit(c) ==
  /\ c \notin mounted
  /\ ~destroyed
  /\ nScenes < MaxScenes
  /\ animateRendersNow(readyState) => nextId <= MaxFrameId
  /\ LET k == nScenes + 1
         cam == createCamera(viewport)
     IN /\ mounted' = mounted \cup {c}
        \* createScene
        /\ mat' = Append(mat, NewMaterials)
        /\ size' = cam.size
        /\ aspect' = cam.aspect
        /\ scenes' = Append(scenes, {GridObj(k)})
        /\ grid' = k
        /\ loads' = Append(loads, "pending")
        /\ carMaterial' = Append(carMaterial, NoMaterials)
        \* animate
        /\ IF animateRendersNow(readyState)
             THEN /\ SetLoop(render([LoopState EXCEPT !.gridZ = 0], k, cam.size, now))
                  /\ dclListeners' = dclListeners
             ELSE /\ SetLoop([LoopState EXCEPT !.gridZ = 0])
                  /\ dclListeners' = dclListeners + 1
        /\ resizeListeners' = resizeListeners + 1
  /\ UNCHANGED <<readyState, dclFired, viewport, resizePending, inputValue, now,
                 destroyed, cancelCalls>>

\* the component is torn down: neither component declares ngOnDestroy and the
\* service is provided in 'root', so no code of the repository runs
componentDestroy(c) ==
  /\ c \in mounted
  /\ mounted' = mounted \ {c}
  /\ UNCHANGED <<readyState, dclFired, dclListeners, resizeListeners, viewport,
                 resizePending, inputValue, mat, loads, carMaterial, scenes, grid,
                 gridZ, aspect, size, wheels, pending, frameId, nextId, draws,
                 lastDraw, threw, now, destroyed, cancelCalls>>

\* EngineService.ngOnDestroy
ngOnDestroy ==
  /\ ~destroyed
  /\ nScenes >= 1
  /\ destroyed' = TRUE
  /\ IF frameId # NoFrame
       THEN /\ pending' = pending \ {frameId}
            /\ cancelCalls' = cancelCalls + 1
       ELSE UNCHANGED <<pending, cancelCalls>>
  /\ UNCHANGED <<mounted, readyState, dclFired, dclListeners, resizeListeners,
                 viewport, resizePending, inputValue, mat, loads, carMaterial,
                 scenes, grid, gridZ, aspect, size, wheels, frameId, nextId,
                 draws, lastDraw, threw, now>>

\* a requestAnimationFrame callback runs: () => this.render()
Frame(id) ==
  /\ id \in pending
  /\ nextId <= MaxFrameId
  /\ SetLoop(render([LoopState EXCEPT !.pending = pending \ {id}], grid, size, now))
  /\ UNCHANGED <<mounted, readyState, dclFired, dclListeners, resizeListeners,
                 viewport, resizePending, inputValue, mat, loads, carMaterial,
                 scenes, grid, aspect, size, now, destroyed, cancelCalls>>

\* the loader.load completion callback of createScene call k
LoadDone(k) ==
  /\ k \in 1..nScenes
  /\ loads[k] = "pending"
  /\ loads' = [loads EXCEPT ![k] = "done"]
  /\ carMaterial' = [carMaterial EXCEPT ![k] = assignMaterials(carMaterial[k])]
  /\ wheels' = pushWheels(wheels, k)
  /\ scenes' = [scenes EXCEPT ![nScenes] = scenes[nScenes] \cup {CarObj(k)}]
  /\ UNCHANGED <<mounted, readyState, dclFired, dclListeners, resizeListeners,
                 viewport, resizePending, inputValue, mat, grid, gridZ, aspect,
                 size, pending, frameId, nextId, draws, lastDraw, threw, now,
                 destroyed, cancelCalls>>

\* the load of createScene call k fails: no onError callback was passed
LoadFail(k) ==
  /\ k \in 1..nScenes
  /\ loads[k] = "pending"
  /\ loads' = [loads EXCEPT ![k] = "failed"]
  /\ UNCHANGED <<mounted, readyState, dclFired, dclListeners, resizeListeners,
                 viewport, resizePending, inputValue, mat, carMaterial, scenes,
                 grid, gridZ, aspect, size, wheels, pending, frameId, nextId,
                 draws, lastDraw, threw, now, destroyed, cancelCalls>>

\* the event the listener of colour input m is registered for ('change' on
\* #body-color, 'input' on #details-color and #glass-color) is dispatched
\* with e.target.value = v; the listeners of every createScene call run
ColorEvent(m, v) ==
  /\ inputValue[m] # v
  /\ inputValue' = [inputValue EXCEPT ![m] = v]
  /\ mat' = dispatchColor(mat, m, v)
  /\ UNCHANGED <<mounted, readyState, dclFired, dclListeners, resizeListeners,
                 viewport, resizePending, loads, carMaterial, scenes, grid, gridZ,
                 aspect, size, wheels, pending, frameId, nextId, draws, lastDraw,
                 threw, now, destroyed, cancelCalls>>

\* the window takes a new size; the 'resize' event is dispatched later
ViewportChange(vp) ==
  /\ vp # viewport
  /\ viewport' = vp
  /\ resizePending' = TRUE
  /\ UNCHANGED <<mounted, readyState, dclFired, dclListeners, resizeListeners,
                 inputValue, mat, loads, carMaterial, scenes, grid, gridZ, aspect,
                 size, wheels, pending, frameId, nextId, draws, lastDraw, threw,
                 now, destroyed, cancelCalls>>

\* the window 'resize' event: every listener animate() added calls resize()
ResizeEvent ==
  /\ resizePending
  /\ resizePending' = FALSE
  /\ IF resizeListeners > 0
       THEN /\ aspect' = resize(viewport).aspect
            /\ size' = resize(viewport).size
       ELSE UNCHANGED <<aspect, size>>
  /\ UNCHANGED <<mounted, readyState, dclFired, dclListeners, resizeListeners,
                 viewport, inputValue, mat, loads, carMaterial, scenes, grid,
                 gridZ, wheels, pending, frameId, nextId, draws, lastDraw, threw,
                 now, destroyed, cancelCalls>>

\* document.readyState leaves 'loading'
DocInteractive ==
  /\ readyState = "loading"
  /\ readyState' = "interactive"
  /\ UNCHANGED <<mounted, dclFired, dclListeners, resizeListeners, viewport,
                 resizePending, inputValue, mat, loads, carMaterial, scenes, grid,
                 gridZ, aspect, size, wheels, pending, frameId, nextId, draws,
                 lastDraw, threw, now, destroyed, cancelCalls>>

\* the DOMContentLoaded event: every listener animate() added calls render()
DOMContentLoaded ==
  /\ readyState = "interactive"
  /\ ~dclFired
  /\ nextId + dclListeners - 1 <= MaxFrameId
  /\ dclFired' = TRUE
  /\ SetLoop(IF dclListeners = 0
               THEN LoopState
               ELSE renderTimes(LoopState, grid, size, now, dclListeners))
  /\ UNCHANGED <<mounted, readyState, dclListeners, resizeListeners, viewport,
                 resizePending, inputValue, mat, loads, carMaterial, scenes, grid,
                 aspect, size, now, destroyed, cancelCalls>>

\* performance.now() advances
Tick ==
  /\ now < MaxTicks * TimeStep
  /\ now' = now + TimeStep
  /\ UNCHANGED <<mounted, readyState, dclFired, dclListeners, resizeListeners,
                 viewport, resizePending, inputValue, mat, loads, carMaterial,
                 scenes, grid, gridZ, aspect, size, wheels, pending, frameId,
                 nextId, draws, lastDraw, threw, destroyed, cancelCalls>>

\* The colour listeners write only mat (and the inputs hold inputValue), which
\* no other handler reads or writes; the clock and the window size are read
\* only by render() and resize(). The two specifications share the component
\* life cycle, the loads and the render loop.
Next ==
  \/ \E c \in Components : ngOnInit(c)
  \/ \E c \in Components : componentDestroy(c)
  \/ ngOnDestroy
  \/ \E id \in pending : Frame(id)
  \/ \E k \in 1..nScenes : LoadDone(k)
  \/ \E k \in 1..nScenes : LoadFail(k)
  \/ \E vp \in Viewports : ViewportChange(vp)
  \/ ResizeEvent
  \/ DocInteractive
  \/ DOMContentLoaded
  \/ Tick

Spec == Init /\ [][Next]_vars

ColorNext ==
  \/ \E c \in Components : ngOnInit(c)
  \/ \E c \in Components : componentDestroy(c)
  \/ \E k \in 1..nScenes : LoadDone(k)
  \/ \E k \in 1..nScenes : LoadFail(k)
  \/ \E m \in Materials, v \in PickableColors : ColorEvent(m, v)

ColorSpec == Init /\ [][ColorNext]_vars

\* ------------------------------------------------------------- claims

Done(k) == loads[k] = "done"
DoneLoads == {k \in 1..nScenes : Done(k)}
CustomMeshes == {"body", "glass"} \cup RimNames
Replaced(k) == {n \in MeshNames : carMaterial[k][n] # "default"}
WheelsOf(k) == {i \in 1..Len(wheels) : wheels[i].car = k}
\* a component that ran ngOnInit has been torn down
TornDown == nScenes > Cardinality(mounted)
NoLoadCompleted == \A k \in 1..nScenes : loads[k] # "done"
\* the colour mesh n of car k is drawn with
Shown(k, n) == GetHex(mat[k][carMaterial[k][n]])

\* C1: once ngOnDestroy has called cancelAnimationFrame, no further frame is
\* requested and no further draw call occurs.
C1_NoFrameAfterCancel ==
  [][cancelCalls >= 1 => (draws' = draws /\ nextId' = nextId)]_vars

\* C2: once a component has been torn down, the render loop its ngOnInit
\* started has been cancelled by a single cancel call and no frame is pending.
C2_TeardownCancels ==
  (TornDown /\ draws >= 1) => (cancelCalls = 1 /\ pending = {})

C4_ResizeMatchesViewport ==
  (resizeListeners > 0 /\ ~resizePending) =>
    /\ viewport[2] > 0
    /\ size = viewport
    /\ aspect[2] > 0
    /\ aspect[1] * viewport[2] = aspect[2] * viewport[1]

\* one createScene call, a frame drawn at one size, then resize() made the
\* renderer follow the window to another size
C4_Resized ==
  /\ nScenes = 1 /\ draws >= 1
  /\ resizeListeners > 0 /\ ~resizePending
  /\ size = viewport /\ lastDraw.size # size
  /\ aspect = <<3, 4>>

C6_RendersWithoutModel ==
  [][NoLoadCompleted' =>
       /\ wheels' = <<>>
       /\ \A k \in 1..nScenes' : scenes'[k] = {GridObj(k)}
       /\ ~threw'
       /\ nextId' - nextId = draws' - draws
       /\ draws' > draws => (frameId' \in pending' /\ lastDraw'.scheduled)
    ]_vars

C6_FailedLoadStillRendering ==
  /\ nScenes = 1 /\ loads[1] = "failed"
  /\ draws >= 2 /\ frameId \in pending /\ ~threw
  /\ ~destroyed

\* C7: a frame rendered at elapsed time t leaves every registered wheel at
\* rotation (-t) * pi, whatever the rotation was before.
C7_WheelRotation ==
  [][draws' > draws =>
       \A i \in 1..Len(wheels') : wheels'[i].rot + now' = 0]_vars

C7_WheelsRotated ==
  /\ Len(wheels) = 8 /\ now > 0 /\ draws >= 2
  /\ \A i \in 1..Len(wheels) : wheels[i].rot = 0 - now

\* C8: nothing is drawn while the document is loading; animate() called then
\* adds a DOMContentLoaded listener and draws nothing, and each such listener
\* draws its first frame when the event fires; animate() called later draws
\* its first frame at once; every animate() adds a resize listener, and a
\* resize event is handled whenever one is registered, drawn frame or not.
C8_StartsWhenReady ==
  [][/\ readyState' = "loading" => draws' = 0
     /\ nScenes' > nScenes =>
          /\ resizeListeners' = resizeListeners + 1
          /\ IF readyState = "loading"
               THEN draws' = draws /\ dclListeners' = dclListeners + 1
               ELSE draws' = draws + 1 /\ dclListeners' = dclListeners
     /\ (dclFired' /\ ~dclFired) => draws' = draws + dclListeners
     /\ (resizePending /\ ~resizePending' /\ resizeListeners > 0) =>
          (size' = viewport /\ draws' = draws)
    ]_vars

\* animate() ran while the document was loading, no frame has been drawn, and
\* the window has been resized to a size the renderer already follows
C8_ResizedBeforeFirstFrame ==
  /\ readyState = "loading" /\ draws = 0
  /\ dclListeners = 1 /\ resizeListeners = 1 /\ nScenes = 1
  /\ ~resizePending /\ viewport # InitialViewport /\ size = viewport

\* C9: every drawn frame sees, for every load, either the scene without that
\* load's car and no wheel of it registered, or the car in the scene with its
\* six custom materials and its four wheels registered.
C9_FrameSeesWholeLoad ==
  [][draws' > draws =>
       \A k \in 1..nScenes' :
         \/ /\ CarObj(k) \notin scenes'[nScenes']
            /\ WheelsOf(k)' = {}
         \/ /\ CarObj(k) \in scenes'[nScenes']
            /\ Replaced(k)' = CustomMeshes
            /\ Cardinality(WheelsOf(k)') = 4
    ]_vars

\* C10: every render() call requests exactly one frame and does so before
\* its draw call; after a single animate() call, from the first render()
\* until cancellation, exactly one frame callback is pending and frameId is
\* its handle.
C10_OnePendingFrame ==
  [][/\ nextId' - nextId = draws' - draws
     /\ draws' > draws =>
          /\ lastDraw'.scheduled
          /\ frameId' = nextId' - 1
          /\ frameId' \in pending'
     /\ (nScenes' = 1 /\ draws' >= 1 /\ cancelCalls' = 0) => pending' = {frameId'}
    ]_vars

C10_LoopRunning ==
  /\ nScenes = 1 /\ draws = 3 /\ cancelCalls = 0
  /\ pending = {frameId} /\ lastDraw.scheduled

====
